---- MODULE Spec2Model ----
(***************************************************************************)
(* Model of src/main.py: the CompanyClassifier decision engine.            *)
(*                                                                         *)
(* Python values are tagged records [ty, n, s]: an int carries n, a str    *)
(* carries its characters in s, NaN (an empty CSV cell read by pandas) and *)
(* None carry nothing.  A Python call that can raise is an operator that   *)
(* returns [exc, val]: exc = "" on a normal return, else the exception.    *)
(***************************************************************************)
EXTENDS Integers, Sequences, FiniteSets, TLC

VARIABLES
    pc,                     \* position in main (149-156) / classify_companies (98-147); "fn", "fn_done" for a single call
    openai_key,             \* main: os.getenv('OPENAI_API_KEY') (151)
    df,                     \* self.df: the rows read from the CSV (24)
    idx,                    \* number of rows df.iterrows() has yielded so far (102)
    calls,                  \* provider requests sent and answered, in order (41-45)
    response,               \* what the provider answered for the current row (41-46)
    gpt_analysis,           \* local gpt_analysis of the loop body (104)
    basic_criteria_met,     \* local of the loop body (111)
    advanced_criteria_met,  \* local of the loop body (124)
    results,                \* local list `results` (100, 132)
    returned,               \* the rows of the DataFrame classify_companies returned (147)
    exc,                    \* the exception that left classify_companies / main, "" if none
    arg,                    \* argument(s) of the single call under test
    ret                     \* its result

vars == <<pc, openai_key, df, idx, calls, response, gpt_analysis,
          basic_criteria_met, advanced_criteria_met, results, returned, exc, arg, ret>>

-----------------------------------------------------------------------------
(* Bounds of the model *)

MaxRecords == 2     \* rows in the CSV
MaxRate    == 7     \* growth percentages range over -1 .. MaxRate
MaxCount   == 3     \* employees per region range over 0 .. MaxCount

-----------------------------------------------------------------------------
(* Python values *)

PyInt(k)  == [ty |-> "int",  n |-> k, s |-> <<>>]
PyStr(cs) == [ty |-> "str",  n |-> 0, s |-> cs]
PyNaN     == [ty |-> "nan",  n |-> 0, s |-> <<>>]
PyNone    == [ty |-> "none", n |-> 0, s |-> <<>>]

Ret(b)   == [exc |-> "", val |-> b]
Raise(e) == [exc |-> e,  val |-> FALSE]

\* `a and b` : b is evaluated only when a returned a true value
AndThen(a, b) == IF a.exc # "" \/ ~a.val THEN a ELSE b

\* `sub in s` on two str values, as character sequences
Contains(sub, s) ==
    \E k \in 1..(Len(s) - Len(sub) + 1) : SubSeq(s, k, k + Len(sub) - 1) = sub

MinOf(S) == CHOOSE x \in S : \A y \in S : x <= y
MaxOf(S) == CHOOSE x \in S : \A y \in S : x >= y

-----------------------------------------------------------------------------
(* CompanyClassifier: the eligibility predicates *)

CurrentYear == 2026

is_founded_recently(founded_year) ==
    CASE founded_year.ty = "int" -> Ret(CurrentYear - founded_year.n <= 5)
      [] founded_year.ty = "nan" -> Ret(FALSE)          \* NaN <= 5 is False
      [] OTHER                   -> Raise("TypeError")  \* int - str

has_valid_employee_count(employee_count) ==
    CASE employee_count.ty = "int" -> Ret(20 <= employee_count.n /\ employee_count.n <= 60)
      [] employee_count.ty = "nan" -> Ret(FALSE)
      [] OTHER                     -> Raise("TypeError")  \* 20 <= str

USA    == <<"U", "S", "A">>
Canada == <<"C", "a", "n", "a", "d", "a">>

is_north_american(headquarters) ==
    IF headquarters.ty = "str"
    THEN Ret(\E country \in {USA, Canada} : Contains(country, headquarters.s))
    ELSE Raise("TypeError")     \* `'USA' in <float>` : argument is not iterable

(* has_stable_growth.  The annualized rates growth_2y/2, growth_1y and      *)
(* growth_6m*2 are held in units of one half (g2, 2*g1, 4*g6), which is     *)
(* exact for the float division by 2; max/min < 3 on a positive min is      *)
(* max < 3*min.  `divided` tells whether the ratio was computed and        *)
(* `divisor` what it divided by (same units; 0 when nothing was divided).   *)
Rates2(growth_2y, growth_1y, growth_6m) ==
    {growth_2y.n, 2 * growth_1y.n, 4 * growth_6m.n}

\* variant: the ratio bound included (max/min <= 3)
has_stable_growth_mut_ratio(growth_2y, growth_1y, growth_6m) ==
    IF growth_2y.ty = "nan"
    THEN [val |-> growth_1y.n > growth_6m.n /\ growth_6m.n > 0,
          divided |-> FALSE, divisor |-> 0]
    ELSE LET rates == Rates2(growth_2y, growth_1y, growth_6m)
         IN  IF MinOf(rates) <= 0
             THEN [val |-> FALSE, divided |-> FALSE, divisor |-> 0]
             ELSE [val |-> MaxOf(rates) <= 3 * MinOf(rates),
                   divided |-> TRUE, divisor |-> MinOf(rates)]

\* variant: the 6-month rate annualized on the young-company branch
has_stable_growth_mut_young(growth_2y, growth_1y, growth_6m) ==
    IF growth_2y.ty = "nan"
    THEN [val |-> growth_1y.n > 2 * growth_6m.n /\ growth_6m.n > 0,
          divided |-> FALSE, divisor |-> 0]
    ELSE LET rates == Rates2(growth_2y, growth_1y, growth_6m)
         IN  IF MinOf(rates) <= 0
             THEN [val |-> FALSE, divided |-> FALSE, divisor |-> 0]
             ELSE [val |-> MaxOf(rates) < 3 * MinOf(rates),
                   divided |-> TRUE, divisor |-> MinOf(rates)]

has_stable_growth(growth_2y, growth_1y, growth_6m) ==
    IF growth_2y.ty = "nan"                                     \* pd.isna(growth_2y)
    THEN [val |-> growth_1y.n > growth_6m.n /\ growth_6m.n > 0,
          divided |-> FALSE, divisor |-> 0]
    ELSE LET rates == Rates2(growth_2y, growth_1y, growth_6m)
         IN  IF MinOf(rates) <= 0
             THEN [val |-> FALSE, divided |-> FALSE, divisor |-> 0]
             ELSE [val |-> MaxOf(rates) < 3 * MinOf(rates),
                   divided |-> TRUE, divisor |-> MinOf(rates)]

-----------------------------------------------------------------------------
(* is_mostly_north_american: the text of 'Employee Locations' is a sequence *)
(* of tokens; str.replace and json.loads work on the tokens.                *)

Punct(p) == [t |-> "punct", w |-> p,  n |-> 0]
Word(w)  == [t |-> "word",  w |-> w,  n |-> 0]     \* characters between two quotes
Num(k)   == [t |-> "num",   w |-> "", n |-> k]     \* an integer literal

SQ == Punct("'")
DQ == Punct("\"")

\* locations.replace("'", '"')
replace_quotes(text) == [k \in 1..Len(text) |-> IF text[k] = SQ THEN DQ ELSE text[k]]

\* a JSON string "w" (or "") at position p: <<ok, the string, next position>>
JsonString(ts, p) ==
    IF p + 1 <= Len(ts) /\ ts[p] = DQ /\ ts[p + 1] = DQ
        THEN <<TRUE, "", p + 2>>
    ELSE IF p + 2 <= Len(ts) /\ ts[p] = DQ /\ ts[p + 1].t = "word" /\ ts[p + 2] = DQ
        THEN <<TRUE, ts[p + 1].w, p + 3>>
    ELSE <<FALSE, "", p>>

\* a scalar JSON value at position p: <<ok, the Python value, next position>>
StringValue(str) == <<str[1], PyStr(<<str[2]>>), str[3]>>

JsonScalar(ts, p) ==
    IF p <= Len(ts) /\ ts[p].t = "num"
        THEN <<TRUE, PyInt(ts[p].n), p + 1>>
    ELSE IF p <= Len(ts) /\ ts[p] = Punct("null")
        THEN <<TRUE, PyNone, p + 1>>
    ELSE StringValue(JsonString(ts, p))

\* d[key] = value
DictSet(d, key, value) ==
    [k \in (DOMAIN d) \cup {key} |-> IF k = key THEN value ELSE d[k]]

(* The members of an object from position p on, added to the dict d (a     *)
(* later duplicate key replaces the earlier one): a key, a colon, a value,  *)
(* then a comma and more members, or the closing brace that ends the text.  *)
RECURSIVE JsonMembers(_, _, _)
RECURSIVE MembersAfterKey(_, _, _)
RECURSIVE MembersAfterValue(_, _, _, _)

MembersAfterValue(ts, d, key, val) ==
    IF ~val[1] \/ val[3] > Len(ts) THEN Raise("JSONDecodeError")
    ELSE IF ts[val[3]] = Punct("}") /\ val[3] = Len(ts)
        THEN [exc |-> "", val |-> DictSet(d, key, val[2])]
    ELSE IF ts[val[3]] = Punct(",")
        THEN JsonMembers(ts, val[3] + 1, DictSet(d, key, val[2]))
    ELSE Raise("JSONDecodeError")

MembersAfterKey(ts, d, key) ==
    IF ~key[1] \/ key[3] > Len(ts) \/ ts[key[3]] # Punct(":")
    THEN Raise("JSONDecodeError")
    ELSE MembersAfterValue(ts, d, key[2], JsonScalar(ts, key[3] + 1))

JsonMembers(ts, p, d) == MembersAfterKey(ts, d, JsonString(ts, p))

EmptyDict == [k \in {} |-> PyNone]

JsonError == [exc |-> "JSONDecodeError", kind |-> "", val |-> EmptyDict]

ObjectOrError(m) ==
    IF m.exc # "" THEN JsonError ELSE [exc |-> "", kind |-> "dict", val |-> m.val]

\* json.loads: [exc, kind, val]; kind is "dict" (val the dict), "list" or "scalar"
json_loads(ts) ==
    IF Len(ts) = 0 THEN JsonError
    ELSE IF ts = <<Punct("{"), Punct("}")>>
        THEN [exc |-> "", kind |-> "dict", val |-> EmptyDict]
    ELSE IF ts[1] = Punct("{")
        THEN ObjectOrError(JsonMembers(ts, 2, EmptyDict))
    ELSE IF ts = <<Punct("["), Punct("]")>>
        THEN [exc |-> "", kind |-> "list", val |-> EmptyDict]
    ELSE IF Len(ts) = 1 /\ JsonScalar(ts, 1)[1]
        THEN [exc |-> "", kind |-> "scalar", val |-> EmptyDict]
    ELSE JsonError

RECURSIVE SumInts(_, _)
SumInts(d, keys) ==
    IF keys = {} THEN 0
    ELSE d[CHOOSE x \in keys : TRUE].n + SumInts(d, keys \ {CHOOSE x \in keys : TRUE})

\* loc_dict.get(key, 0)
DictGet(d, key) == IF key \in DOMAIN d THEN d[key].n ELSE 0

\* variant: >= 0.5
na_share_at_least_half(na_employees, total_employees) ==
    IF total_employees > 0 THEN 2 * na_employees >= total_employees
    ELSE 2 * na_employees <= total_employees

\* (na_employees / total_employees) > 0.5, total_employees nonzero
na_share_exceeds_half(na_employees, total_employees) ==
    IF total_employees > 0 THEN 2 * na_employees > total_employees
    ELSE 2 * na_employees < total_employees

\* return (na_employees / total_employees) > 0.5
share_test(na_employees, total_employees) ==
    IF total_employees = 0 THEN Raise("ZeroDivisionError")
    ELSE Ret(na_share_exceeds_half(na_employees, total_employees))

\* total_employees = sum(loc_dict.values()); na_employees = ... .get(..., 0)
count_employees(loc_dict) ==
    IF \E k \in DOMAIN loc_dict : loc_dict[k].ty # "int"
    THEN Raise("TypeError")                                  \* sum() of int + str
    ELSE share_test(DictGet(loc_dict, "USA") + DictGet(loc_dict, "Canada"),
                    SumInts(loc_dict, DOMAIN loc_dict))

use_loaded(loaded) ==
    IF loaded.exc # "" THEN Raise(loaded.exc)
    ELSE IF loaded.kind # "dict" THEN Raise("AttributeError")    \* no .values()
    ELSE count_employees(loaded.val)

\* the body of the try block: the value returned, or the exception raised in it
mostly_na_try(locations) ==
    IF locations.ty # "str" THEN Raise("AttributeError")       \* <float>.replace
    ELSE use_loaded(json_loads(replace_quotes(locations.s)))

\* except: return False
except_return_false(r) == IF r.exc # "" THEN Ret(FALSE) ELSE r

is_mostly_north_american(locations) == except_return_false(mostly_na_try(locations))

(* The texts of 'Employee Locations': a distribution written the way the   *)
(* CSV writes it ({'USA': 30, 'UK': 5}), and texts that are not one.        *)
Regions     == <<"USA", "Canada", "UK">>
CountValues == {PyInt(k) : k \in 0..MaxCount} \cup {PyStr(<<"many">>)}
Distributions ==
    UNION {[S -> CountValues] : S \in SUBSET {Regions[k] : k \in 1..Len(Regions)}}

ValueTokens(v) == IF v.ty = "int" THEN <<Num(v.n)>> ELSE <<SQ, Word(v.s[1]), SQ>>

RECURSIVE Members(_, _, _)
Members(d, k, first) ==
    IF k > Len(Regions) THEN <<>>
    ELSE IF Regions[k] \notin DOMAIN d THEN Members(d, k + 1, first)
    ELSE (IF first THEN <<>> ELSE <<Punct(",")>>)
         \o <<SQ, Word(Regions[k]), SQ, Punct(":")>> \o ValueTokens(d[Regions[k]])
         \o Members(d, k + 1, FALSE)

Text(d) == <<Punct("{")>> \o Members(d, 1, TRUE) \o <<Punct("}")>>

NoDist == [k \in {} |-> PyInt(0)]
Only(region, count) == [k \in {region} |-> PyInt(count)]

-----------------------------------------------------------------------------
(* CompanyAnalysis and get_gpt_analysis *)

\* a CompanyAnalysis; none = TRUE stands for Python's None in its place
Analysis(saas, growth, risk) ==
    [none |-> FALSE, is_saas |-> saas, growth_potential |-> growth, risk_level |-> risk,
     key_strengths |-> <<"sticky product", "low churn">>,
     concerns |-> <<"small team">>,
     target_market |-> "SMB", competitive_advantage |-> "integrations"]

NoAnalysis ==
    [none |-> TRUE, is_saas |-> FALSE, growth_potential |-> 0, risk_level |-> 0,
     key_strengths |-> <<>>, concerns |-> <<>>,
     target_market |-> "", competitive_advantage |-> ""]

\* the CompanyAnalysis built in the except block
FallbackAnalysis ==
    [none |-> FALSE, is_saas |-> FALSE, growth_potential |-> 0, risk_level |-> 10,
     key_strengths |-> <<"Analysis failed">>, concerns |-> <<"Analysis failed">>,
     target_market |-> "Unknown", competitive_advantage |-> "Unknown"]

(* What openai...parse can do.  "parsed": a response whose message.parsed   *)
(* validated as a CompanyAnalysis (two ints of any value).  "error": the    *)
(* call raised (network, timeout, validation, length).  "no_choices": a     *)
(* response with an empty choices list.  "refusal": a response whose        *)
(* message carries a refusal and parsed = None.                             *)
Responses ==
    {[kind |-> "parsed", parsed |-> a] :
        a \in {Analysis(TRUE, 7, 6), Analysis(FALSE, 9, 1), Analysis(TRUE, 6, 6),
               Analysis(TRUE, 8, 7), Analysis(TRUE, 11, -1)}}
    \cup {[kind |-> k, parsed |-> NoAnalysis] : k \in {"error", "no_choices", "refusal"}}

NoResponse == [kind |-> "pending", parsed |-> NoAnalysis]

\* what get_gpt_analysis returns once the provider has answered; it never raises
get_gpt_analysis(resp) ==
    CASE resp.kind = "parsed"     -> resp.parsed          \* response.choices[0].message.parsed
      [] resp.kind = "refusal"    -> NoAnalysis           \* the same expression, which is None
      [] resp.kind = "error"      -> FallbackAnalysis     \* except Exception
      [] resp.kind = "no_choices" -> FallbackAnalysis     \* IndexError, except Exception

-----------------------------------------------------------------------------
(* classify_companies *)

Chars(hq) == PyStr(hq)
Name(w)   == PyStr(<<w>>)

Company(name, founded, employees, hq, locations, g2, g1, g6) ==
    [name |-> Name(name), description |-> Name("about"), industry |-> Name("Software"),
     founded |-> founded, employees |-> employees, headquarters |-> hq,
     locations |-> locations, growth_2y |-> g2, growth_1y |-> g1, growth_6m |-> g6]

Austin_USA == <<"T", "X", ",", " ">> \o USA
Majority == PyStr(Text(Only("USA", 3) @@ Only("UK", 2)))

\* the rows a CSV can hold: eligible ones, one per failing predicate, and
\* rows with an empty cell (which pandas reads as NaN)
Records ==
    { Company("Acme",     PyInt(2021), PyInt(20), Chars(Austin_USA), Majority,
              PyInt(10), PyInt(6), PyInt(3)),
      Company("Bolt",     PyInt(2025), PyInt(60), Chars(Canada),
              PyStr(Text(Only("Canada", 2) @@ Only("UK", 1))), PyNaN, PyInt(4), PyInt(2)),
      Company("Old",      PyInt(2020), PyInt(20), Chars(Austin_USA), Majority,
              PyInt(10), PyInt(6), PyInt(3)),
      Company("Big",      PyInt(2021), PyInt(61), Chars(Austin_USA), Majority,
              PyInt(10), PyInt(6), PyInt(3)),
      Company("Lower",    PyInt(2021), PyInt(20), Chars(<<"u", "s", "a">>), Majority,
              PyInt(10), PyInt(6), PyInt(3)),
      Company("Offshore", PyInt(2021), PyInt(20), Chars(Austin_USA),
              PyStr(Text(Only("USA", 1) @@ Only("UK", 1))), PyInt(10), PyInt(6), PyInt(3)),
      Company("Garbled",  PyInt(2021), PyInt(20), Chars(Austin_USA),
              PyStr(<<Punct("{"), SQ, Word("USA"), SQ, Punct(":"), Num(2)>>),
              PyInt(10), PyInt(6), PyInt(3)),
      Company("Erratic",  PyInt(2021), PyInt(20), Chars(Austin_USA), Majority,
              PyInt(2), PyInt(9), PyInt(1)),
      Company("NoHQ",     PyInt(2021), PyInt(20), PyNaN, Majority,
              PyInt(10), PyInt(6), PyInt(3)),
      Company("OldNoHQ",  PyInt(2020), PyInt(20), PyNaN, Majority,
              PyInt(10), PyInt(6), PyInt(3)),
      Company("NoYear",   PyNaN, PyInt(20), Chars(Austin_USA), Majority,
              PyInt(10), PyInt(6), PyInt(3)) }

\* the CSVs of at most MaxRecords rows
DataFrames == UNION {[1..n -> Records] : n \in 0..MaxRecords}

\* variant: the employee-count test left out
basic_criteria_mut_no_count(company) ==
    AndThen(is_founded_recently(company.founded),
    AndThen(is_north_american(company.headquarters),
    AndThen(is_mostly_north_american(company.locations),
            Ret(has_stable_growth(company.growth_2y, company.growth_1y,
                                  company.growth_6m).val))))

\* basic_criteria_met = ... and ... and ... : left to right, stopping at the first False
basic_criteria(company) ==
    AndThen(is_founded_recently(company.founded),
    AndThen(has_valid_employee_count(company.employees),
    AndThen(is_north_american(company.headquarters),
    AndThen(is_mostly_north_american(company.locations),
            Ret(has_stable_growth(company.growth_2y, company.growth_1y,
                                  company.growth_6m).val)))))

\* advanced_criteria_met; an attribute of None raises
advanced_criteria(analysis) ==
    IF analysis.none THEN Raise("AttributeError")
    ELSE Ret(analysis.is_saas /\ analysis.growth_potential >= 7 /\ analysis.risk_level <= 6)

\* variant: `or` for `and`
interesting_mut_either(basic, advanced) == basic \/ advanced

\* interesting = basic_criteria_met and advanced_criteria_met
interesting_flag(basic, advanced) == basic /\ advanced

\* ', '.join(items)
RECURSIVE Join(_)
Join(items) ==
    IF Len(items) = 0 THEN <<>>
    ELSE IF Len(items) = 1 THEN items
    ELSE <<items[1], ", ">> \o Join(Tail(items))

\* the dict appended to results
result_row(company, analysis, interesting) ==
    [ c \in {"Company Name", "Founded Year", "Total Employees", "Headquarters", "Industry",
             "Growth Potential", "Risk Level", "Key Strengths", "Concerns",
             "Target Market", "Competitive Advantage", "Interesting"} |->
        CASE c = "Company Name"          -> company.name
          [] c = "Founded Year"          -> company.founded
          [] c = "Total Employees"       -> company.employees
          [] c = "Headquarters"          -> company.headquarters
          [] c = "Industry"              -> company.industry
          [] c = "Growth Potential"      -> analysis.growth_potential
          [] c = "Risk Level"            -> analysis.risk_level
          [] c = "Key Strengths"         -> Join(analysis.key_strengths)
          [] c = "Concerns"              -> Join(analysis.concerns)
          [] c = "Target Market"         -> analysis.target_market
          [] c = "Competitive Advantage" -> analysis.competitive_advantage
          [] c = "Interesting"           -> IF interesting THEN "Yes" ELSE "No" ]

single == <<arg, ret>>

Init ==
    /\ pc = "main"
    /\ openai_key \in {"", "sk-test"}
    /\ df \in DataFrames
    /\ idx = 0 /\ calls = <<>>
    /\ response = NoResponse /\ gpt_analysis = NoAnalysis
    /\ basic_criteria_met = FALSE /\ advanced_criteria_met = FALSE
    /\ results = <<>> /\ returned = <<>> /\ exc = ""
    /\ arg = <<>> /\ ret = <<>>

\* main: `if not openai_key: raise ValueError`
MainWithoutKey ==
    /\ pc = "main" /\ openai_key = ""
    /\ pc' = "fatal" /\ exc' = "ValueError"
    /\ UNCHANGED <<openai_key, df, idx, calls, response, gpt_analysis,
                   basic_criteria_met, advanced_criteria_met, results, returned, single>>

\* main: construct the classifier and enter classify_companies
MainStart ==
    /\ pc = "main" /\ openai_key # ""
    /\ pc' = "loop"
    /\ UNCHANGED <<openai_key, df, idx, calls, response, gpt_analysis,
                   basic_criteria_met, advanced_criteria_met, results, returned, exc, single>>

\* iterrows yields the next row; get_gpt_analysis sends its one request
NextRow ==
    /\ pc = "loop" /\ idx < Len(df)
    /\ idx' = idx + 1
    /\ calls' = Append(calls, [row |-> idx + 1, ev |-> "request"])
    /\ response' = NoResponse
    /\ pc' = "provider"
    /\ UNCHANGED <<openai_key, df, gpt_analysis, basic_criteria_met, advanced_criteria_met,
                   results, returned, exc, single>>

\* the provider answers (or the call raises) and get_gpt_analysis returns
ProviderAnswers ==
    /\ pc = "provider"
    /\ \E resp \in Responses :
          /\ response' = resp
          /\ gpt_analysis' = get_gpt_analysis(resp)
    /\ calls' = Append(calls, [row |-> idx, ev |-> "answer"])
    /\ pc' = "classify"
    /\ UNCHANGED <<openai_key, df, idx, basic_criteria_met, advanced_criteria_met,
                   results, returned, exc, single>>

(* The loop body after get_gpt_analysis: basic_criteria_met, then         *)
(* advanced_criteria_met, then the row.  at = "basic" / "advanced" tells    *)
(* which assignment raised exc; at = "" when the row was appended.          *)
body_row(company, analysis, basic, advanced) ==
    IF advanced.exc # ""
    THEN [at |-> "advanced", exc |-> advanced.exc, basic |-> basic.val, advanced |-> FALSE,
          row |-> <<>>]
    ELSE [at |-> "", exc |-> "", basic |-> basic.val, advanced |-> advanced.val,
          row |-> <<result_row(company, analysis, interesting_flag(basic.val, advanced.val))>>]

body_advanced(company, analysis, basic) ==
    IF basic.exc # ""
    THEN [at |-> "basic", exc |-> basic.exc, basic |-> FALSE, advanced |-> FALSE, row |-> <<>>]
    ELSE body_row(company, analysis, basic, advanced_criteria(analysis))

loop_body(company, analysis) == body_advanced(company, analysis, basic_criteria(company))

\* the rest of the loop body, when nothing in it raises
ClassifyRow ==
    /\ pc = "classify"
    /\ \E out \in {loop_body(df[idx], gpt_analysis)} :
          /\ out.at = ""
          /\ basic_criteria_met' = out.basic
          /\ advanced_criteria_met' = out.advanced
          /\ results' = results \o out.row
    /\ pc' = "loop"
    /\ UNCHANGED <<openai_key, df, idx, calls, response, gpt_analysis, returned, exc, single>>

\* the rest of the loop body, when a predicate raises: nothing catches it
ClassifyRaisesBasic ==
    /\ pc = "classify"
    /\ \E out \in {loop_body(df[idx], gpt_analysis)} :
          /\ out.at = "basic"
          /\ exc' = out.exc
    /\ pc' = "raised"
    /\ UNCHANGED <<openai_key, df, idx, calls, response, gpt_analysis, basic_criteria_met,
                   advanced_criteria_met, results, returned, single>>

\* the rest of the loop body, when gpt_analysis is None
ClassifyRaisesAdvanced ==
    /\ pc = "classify"
    /\ \E out \in {loop_body(df[idx], gpt_analysis)} :
          /\ out.at = "advanced"
          /\ basic_criteria_met' = out.basic
          /\ exc' = out.exc
    /\ pc' = "raised"
    /\ UNCHANGED <<openai_key, df, idx, calls, response, gpt_analysis,
                   advanced_criteria_met, results, returned, single>>

\* return pd.DataFrame(results)
Return ==
    /\ pc = "loop" /\ idx = Len(df)
    /\ returned' = results
    /\ pc' = "done"
    /\ UNCHANGED <<openai_key, df, idx, calls, response, gpt_analysis, basic_criteria_met,
                   advanced_criteria_met, results, exc, single>>

Next ==
    \/ MainWithoutKey
    \/ MainStart
    \/ NextRow
    \/ ProviderAnswers
    \/ ClassifyRow
    \/ ClassifyRaisesBasic
    \/ ClassifyRaisesAdvanced
    \/ Return

Spec == Init /\ [][Next]_vars

-----------------------------------------------------------------------------
(* Single calls of the two numeric predicates, on every input in the bounds *)

Idle ==
    /\ openai_key = "" /\ df = <<>> /\ idx = 0 /\ calls = <<>>
    /\ response = NoResponse /\ gpt_analysis = NoAnalysis
    /\ basic_criteria_met = FALSE /\ advanced_criteria_met = FALSE
    /\ results = <<>> /\ returned = <<>> /\ exc = ""

pipeline == <<openai_key, df, idx, calls, response, gpt_analysis,
              basic_criteria_met, advanced_criteria_met, results, returned, exc>>

Rates == {PyInt(k) : k \in -1..MaxRate}

\* 'Employee Growth 2Y (%)' may be an empty cell; the other two are numbers
GrowthInputs == ({PyNaN} \cup {PyInt(k) : k \in -1..(2 * MaxRate)}) \X Rates \X Rates

InitGrowth ==
    /\ Idle
    /\ pc = "fn"
    /\ arg \in GrowthInputs
    /\ ret = [val |-> FALSE, divided |-> FALSE, divisor |-> 0]

CallStableGrowth ==
    /\ pc = "fn"
    /\ ret' = has_stable_growth(arg[1], arg[2], arg[3])
    /\ pc' = "fn_done"
    /\ UNCHANGED <<pipeline, arg>>

NextGrowth == CallStableGrowth

SpecGrowth == InitGrowth /\ [][NextGrowth]_vars

\* [dist: the distribution the text denotes, parses: whether it denotes one,
\*  value: the cell as classify_companies reads it]
LocationInputs ==
    {[dist |-> d, parses |-> TRUE, value |-> PyStr(Text(d))] : d \in Distributions}
    \cup
    {   \* already double-quoted JSON
        [dist |-> Only("USA", 2), parses |-> TRUE,
         value |-> PyStr(<<Punct("{"), DQ, Word("USA"), DQ, Punct(":"), Num(2), Punct("}")>>)],
        \* a repeated key: the later count stands
        [dist |-> Only("USA", 0) @@ Only("UK", 1), parses |-> TRUE,
         value |-> PyStr(<<Punct("{"), SQ, Word("USA"), SQ, Punct(":"), Num(3), Punct(","),
                           SQ, Word("USA"), SQ, Punct(":"), Num(0), Punct(","),
                           SQ, Word("UK"), SQ, Punct(":"), Num(1), Punct("}")>>)],
        \* an empty cell (NaN), an empty text, a truncated text, a list, a bare number
        [dist |-> NoDist, parses |-> FALSE, value |-> PyNaN],
        [dist |-> NoDist, parses |-> FALSE, value |-> PyStr(<<>>)],
        [dist |-> NoDist, parses |-> FALSE,
         value |-> PyStr(<<Punct("{"), SQ, Word("USA"), SQ, Punct(":"), Num(2)>>)],
        [dist |-> NoDist, parses |-> FALSE, value |-> PyStr(<<Punct("["), Punct("]")>>)],
        [dist |-> NoDist, parses |-> FALSE, value |-> PyStr(<<Num(2)>>)],
        \* an apostrophe inside a region name: {'Cote d'Ivoire': 2}
        [dist |-> NoDist, parses |-> FALSE,
         value |-> PyStr(<<Punct("{"), SQ, Word("Cote d"), SQ, Word("Ivoire"), SQ,
                           Punct(":"), Num(2), Punct("}")>>)],
        \* a count that is null, a trailing comma
        [dist |-> NoDist, parses |-> FALSE,
         value |-> PyStr(<<Punct("{"), SQ, Word("USA"), SQ, Punct(":"), Punct("null"), Punct("}")>>)],
        [dist |-> NoDist, parses |-> FALSE,
         value |-> PyStr(<<Punct("{"), SQ, Word("USA"), SQ, Punct(":"), Num(2), Punct(","), Punct("}")>>)]
    }

InitLocations ==
    /\ Idle
    /\ pc = "fn"
    /\ arg \in LocationInputs
    /\ ret = Ret(FALSE)

CallMostlyNorthAmerican ==
    /\ pc = "fn"
    /\ ret' = is_mostly_north_american(arg.value)
    /\ pc' = "fn_done"
    /\ UNCHANGED <<pipeline, arg>>

NextLocations == CallMostlyNorthAmerican

SpecLocations == InitLocations /\ [][NextLocations]_vars

-----------------------------------------------------------------------------
(* C4: for a defined 2-year rate, has_stable_growth is true iff the three   *)
(* annualized rates (2-year/2, 1-year, 6-month*2) are all > 0 and every     *)
(* one of them is less than 3 times every other (max/min < 3); a rate <= 0  *)
(* gives false, and the ratio is only ever computed over a positive         *)
(* minimum.                                                                 *)
C4_Annualized == {arg[1].n, 2 * arg[2].n, 4 * arg[3].n}     \* in halves of a percent

C6_Count(region) ==
    IF region \in DOMAIN arg.dist THEN arg.dist[region].n ELSE 0

C6_Total == C6_Count("USA") + C6_Count("Canada") + C6_Count("UK")

C6_MostlyNorthAmerican ==
    pc = "fn_done" =>
        /\ ret.exc = ""
        /\ ret.val <=> /\ arg.parses
                       /\ \A k \in DOMAIN arg.dist : arg.dist[k].ty = "int"
                       /\ C6_Total # 0
                       /\ 2 * (C6_Count("USA") + C6_Count("Canada")) > C6_Total

C6_Witness ==
    /\ pc = "fn_done" /\ arg.parses
    /\ DOMAIN arg.dist = {"Canada", "UK"}
    /\ ret.val

-----------------------------------------------------------------------------
(* The provider is asked about the rows in order, one request at a time:    *)
(* request 1, answer 1, request 2, answer 2, ...                            *)
CallLog(n) ==
    [k \in 1..(2 * n) |-> [row |-> (k + 1) \div 2,
                           ev  |-> IF k % 2 = 1 THEN "request" ELSE "answer"]]

CallsInOrder ==
    \/ pc = "provider" /\ calls = SubSeq(CallLog(idx), 1, 2 * idx - 1)
    \/ pc # "provider" /\ calls = CallLog(idx)

\* a row of the CSV whose cells have the types the data source promises
WellFormed(company) ==
    /\ company.founded.ty = "int"
    /\ company.employees.ty = "int"
    /\ company.headquarters.ty = "str"
    /\ company.locations.ty = "str"

Finished == pc \in {"done", "raised"}

(* C1: a row's Interesting is "Yes" iff the record is at most 5 years old,  *)
(* has 20 to 60 employees, has "USA" or "Canada" in its headquarters, is    *)
(* mostly North American and has stable growth, and the verdict is SaaS     *)
(* with growth_potential >= 7 and risk_level <= 6; it is "No" otherwise.    *)
(* Every well-formed record with a verdict gets its row.                    *)
C1_Heuristics(company) ==
    /\ company.founded.ty = "int" /\ CurrentYear - company.founded.n <= 5
    /\ company.employees.ty = "int" /\ company.employees.n \in 20..60
    /\ company.headquarters.ty = "str"
    /\ (Contains(USA, company.headquarters.s) \/ Contains(Canada, company.headquarters.s))
    /\ is_mostly_north_american(company.locations).val
    /\ has_stable_growth(company.growth_2y, company.growth_1y, company.growth_6m).val

C1_External(verdict) ==
    verdict.is_saas /\ ~(verdict.growth_potential < 7) /\ ~(verdict.risk_level > 6)

C1_InterestingIffAllCriteria ==
    /\ (pc = "loop" /\ idx > 0) =>
          /\ Len(results) = idx
          /\ results[idx]["Interesting"] =
                IF C1_Heuristics(df[idx]) /\ C1_External(gpt_analysis) THEN "Yes" ELSE "No"
    /\ pc = "raised" => (~WellFormed(df[idx]) \/ gpt_analysis.none)

C1_Witness ==
    /\ pc = "loop" /\ idx = 2
    /\ results[1]["Interesting"] = "Yes"
    /\ results[2]["Interesting"] = "No"
    /\ C1_Heuristics(df[2])
    /\ gpt_analysis.is_saas /\ gpt_analysis.risk_level = 7

(* C2: whenever the provider fails (an error, an empty or shape-mismatched  *)
(* response, a response without a parsed verdict), get_gpt_analysis hands   *)
(* the engine the fallback verdict, and the record still gets its row, with *)
(* Interesting = "No".                                                      *)
C2_ProviderFailureContained ==
    (response.kind \in {"error", "no_choices", "refusal"} /\ WellFormed(df[idx])) =>
        /\ gpt_analysis = FallbackAnalysis
        /\ pc # "raised"
        /\ pc \in {"loop", "done"} =>
              (Len(results) = idx /\ results[idx]["Interesting"] = "No")

(* C3: the verdict handed to the engine has growth_potential and risk_level *)
(* in 0..10, and so has every row.                                          *)
C3_ScoresInRange ==
    /\ (pc = "classify" /\ ~gpt_analysis.none) =>
          (gpt_analysis.growth_potential \in 0..10 /\ gpt_analysis.risk_level \in 0..10)
    /\ \A k \in 1..Len(results) :
          results[k]["Growth Potential"] \in 0..10 /\ results[k]["Risk Level"] \in 0..10

(* C7: for N (well-formed) records classify_companies returns N rows, the   *)
(* k-th echoing the k-th record, also when external calls fail.             *)
C7_Echoes(row, company) ==
    /\ row["Company Name"] = company.name
    /\ row["Founded Year"] = company.founded
    /\ row["Total Employees"] = company.employees
    /\ row["Headquarters"] = company.headquarters
    /\ row["Industry"] = company.industry

C7_RowsInSourceOrder ==
    (Finished /\ \A k \in 1..Len(df) : WellFormed(df[k])) =>
        /\ pc = "done"
        /\ Len(returned) = Len(df)
        /\ \A k \in 1..Len(df) : C7_Echoes(returned[k], df[k])

(* C8: a record with a missing or invalid field never aborts the batch:     *)
(* nothing a record's own cells cause leaves classify_companies as an       *)
(* exception.                                                               *)
C8_BadRecordNeverAborts ==
    ~(pc = "raised" /\ ~gpt_analysis.none)

(* C9: every result row carries the three booleans heuristics-passed,       *)
(* external-criteria-passed and interesting, the last the conjunction of    *)
(* the first two.                                                           *)
C9_RowCarriesThreeBooleans ==
    \A k \in 1..Len(results) :
        /\ {"Heuristics Passed", "External Passed", "Interesting"} \subseteq DOMAIN results[k]
        /\ (results[k]["Interesting"] = "Yes") <=>
              (results[k]["Heuristics Passed"] /\ results[k]["External Passed"])

(* C9 as the code has it: a row has the twelve output columns, of which     *)
(* Interesting ("Yes"/"No") is the only verdict flag; it is "Yes" iff       *)
(* basic_criteria_met and advanced_criteria_met, which stay locals of the   *)
(* loop body and are in no row.                                             *)
C9_OutputColumns ==
    {"Company Name", "Founded Year", "Total Employees", "Headquarters", "Industry",
     "Growth Potential", "Risk Level", "Key Strengths", "Concerns", "Target Market",
     "Competitive Advantage", "Interesting"}

C9_RowCarriesOnlyInteresting ==
    /\ \A k \in 1..Len(results) :
          /\ DOMAIN results[k] = C9_OutputColumns
          /\ results[k]["Interesting"] \in {"Yes", "No"}
    /\ (pc = "loop" /\ idx > 0) =>
          ((results[idx]["Interesting"] = "Yes") <=>
              (basic_criteria_met /\ advanced_criteria_met))

C9_Witness ==
    /\ pc = "loop" /\ idx = 2
    /\ results[1]["Interesting"] = "No"
    /\ results[2]["Interesting"] = "No"
    /\ basic_criteria_met /\ ~advanced_criteria_met

(* C10: in a run the provider is attempted exactly once per record, in      *)
(* source order, each attempt answered before the next starts, whatever the *)
(* heuristics say and whether or not the attempt fails.                     *)
C10_OneAttemptPerRecord ==
    /\ CallsInOrder
    /\ (Finished /\ \A k \in 1..Len(df) : WellFormed(df[k])) => calls = CallLog(Len(df))

====
